---- MODULE Spec2Model ----
(***************************************************************************)
(* Event check-in platform: the check-in route (POST /api/checkin), the    *)
(* ledger store it writes (tickets, checkin_log, print_jobs) and the print *)
(* dispatch agent (local_agent.js) that discovers ready_to_print jobs by   *)
(* a startup catch-up query, a realtime (push) channel and a poll loop.    *)
(*                                                                         *)
(* Every `await` of the source is a point where other requests and other   *)
(* asynchronous activities of the agent may run, so each action below is   *)
(* the code between two awaits together with the store call it awaits.     *)
(***************************************************************************)
EXTENDS Integers, Sequences, FiniteSets

(***************************************************************************)
(* Bounds of the model.                                                    *)
(***************************************************************************)
\* number of check-in requests that may be in flight in the check-in service
NumReqs == 2
\* number of jobs that are set back from failed to ready_to_print (once each)
MaxRearms == 1
\* number of store calls that fail in a run
MaxFaults == 1
\* number of realtime payloads that may be waiting for delivery
MaxNotif == 1
\* number of handleScan invocations of the scan page that may be in flight
MaxScans == 3

(***************************************************************************)
(* Program constants.                                                      *)
(***************************************************************************)
\* .limit(5) of the poll query
PollLimit == 5

(***************************************************************************)
(* Data.                                                                   *)
(***************************************************************************)
Tickets == {1, 2}
\* code 0 matches no ticket; TicketCode(t) = t
Codes == {0} \cup Tickets
\* print_jobs rows; created_at grows with j
JobIds == {1, 2}

\* TERMINAL_ID of the agent, and another terminal
TERMINAL_ID == "T1"
Terminals == {"T1", "T2"}
\* `terminalId` of a request body: a terminal, the empty string, or left out
Undefined == "undefined"
TermInputs == Terminals \cup {"", Undefined}
Null == "null"

Reqs == 1 .. NumReqs

Statuses == {"pending", "ready_to_print", "printing", "printed", "failed"}

VARIABLES
  checkin_log,   \* the checkin_log relation: sequence of rows, in insertion order
  print_jobs,    \* the print_jobs relation: JobIds -> row
  reqs,          \* check-in requests: Reqs -> position and locals of POST
  agentPc,       \* main(): "off", "boot", "catchup", "steady"
  channel,       \* realtime channel status last reported to the subscribe callback
  polling,       \* `let polling` of the agent
  pollPc,        \* startPolling loop: "off", "query", "batch", "sleep"
  batch,         \* the rows of the query being looped over (startup or poll)
  procs,         \* processJob invocations in flight: slot -> position and job snapshot
  notif,         \* realtime payloads emitted and not yet delivered
  printCount,    \* ghost: number of print() invocations per job
  rearmed,       \* ghost: the job was set back from failed to ready_to_print
  attempts,      \* ghost: number of processJob invocations completed per job
  faults,        \* environment: number of store calls that have failed so far
  storage,       \* the storage bucket 'tickets': the paths that hold a blob
  send,          \* buildAndSendTicketForAttendee: position and locals of a send
  lastSeen,      \* scan page: the codes of lastSeenRef seen less than 1300 ms ago
  processing,    \* scan page: processingRef, the set of codes being checked in
  scans          \* scan page: handleScan invocations: slot -> position and code

\* print_jobs.ticket_id
TicketOf(j) == print_jobs[j].ticket_id

storeVars == <<checkin_log, print_jobs>>
agentVars == <<agentPc, channel, polling, pollPc, batch, procs, notif>>
ghostVars == <<printCount, rearmed, attempts>>
issueVars == <<storage, send>>
pageVars == <<lastSeen, processing, scans>>
vars == <<checkin_log, print_jobs, reqs, agentPc, channel, polling, pollPc, batch,
          procs, notif, printCount, rearmed, attempts, faults, storage, send,
          lastSeen, processing, scans>>

(***************************************************************************)
(* Helpers.                                                                *)
(***************************************************************************)
Min(a, b) == IF a < b THEN a ELSE b
\* the ghost counters count 0, 1, "2 or more"
Bump(n) == IF n < 2 THEN n + 1 ELSE 2

\* a call to the store returns its result, or fails (an error result or a throw)
StoreOk == faults' = faults
StoreFails == faults < MaxFaults /\ faults' = faults + 1

\* a ?? b
Nullish(a, b) == IF a = Undefined THEN b ELSE a
\* if (a) for a string or undefined
TruthyMutant(a) == a # Undefined
Truthy(a) == a # Undefined /\ a # ""

\* tickets.select().eq("ticket_code", code).maybeSingle()
FindTicketMutant(code) == IF code \in Tickets THEN code ELSE 1
FindTicket(code) == IF code \in Tickets THEN code ELSE 0

\* rows of checkin_log with success = true for ticket t
SuccessRows(t) ==
  {i \in 1 .. Len(checkin_log) :
     checkin_log[i].ticket_id = t /\ checkin_log[i].success}

\* the unique index of checkin_log on the ticket, scoped to successful rows
UniqueViolation(t) == SuccessRows(t) # {}

\* shouldProcessJob(job)
shouldProcessJobAnyStatusMutant(job) == job.terminal_id = TERMINAL_ID
shouldProcessJob(job) ==
  IF job.status # "ready_to_print" THEN FALSE
  ELSE IF job.terminal_id = TERMINAL_ID THEN TRUE
  ELSE FALSE

(***************************************************************************)
(* Realtime change feed of print_jobs: an UPDATE whose new row matches the *)
(* filter terminal_id=eq.TERMINAL_ID is offered to the subscribed channel. *)
(* Delivery is at most once: the payload may be dropped.  handleJobChange  *)
(* returns at once on a payload that fails shouldProcessJob, whatever the  *)
(* state of the agent, so such a payload is not kept for delivery.         *)
(***************************************************************************)
Payload(j, row) ==
  [id |-> j, status |-> row.status, terminal_id |-> row.terminal_id,
   attempt_count |-> row.attempt_count]

Emit(j, row) ==
  IF channel = "SUBSCRIBED" /\ row.terminal_id = TERMINAL_ID
     /\ shouldProcessJob(Payload(j, row))
  THEN \/ notif' = notif
       \/ /\ Cardinality(notif \cup {Payload(j, row)}) <= MaxNotif
          /\ notif' = notif \cup {Payload(j, row)}
  ELSE notif' = notif

(***************************************************************************)
(* The check-in route, POST.                                               *)
(***************************************************************************)
\* (armedAt is a history field: "catchup" when the request made its print-job
\* update while the startup loop of the agent was awaiting a processJob)
NewReq == [pc |-> "new", code |-> 0, term |-> Undefined, ticket |-> 0,
           http |-> 0, existingLog |-> 0, armedAt |-> "none"]

\* bodySchema.safeParse(json).success: ticketCode is a string of length >= 1
\* (BadCode stands for a ticketCode that is missing, empty or not a string)
BadCode == -1
safeParseMutant(code) == TRUE
safeParse(code) == code # BadCode

\* request.json(), bodySchema.safeParse: no success -> 400; 1) find the ticket:
\* findErr -> 500, no ticket -> 404.  Requests are numbered in their order of
\* arrival.
FindStep(r, code, term) ==
  /\ reqs[r].pc = "new"
  /\ \A q \in Reqs : q < r => reqs[q].pc # "new"
  /\ \/ /\ ~safeParse(code)
        /\ faults' = faults
        /\ reqs' = [reqs EXCEPT ![r] = [@ EXCEPT !.pc = "done", !.code = code,
                                                !.term = term, !.http = 400]]
     \/ /\ safeParse(code)
        /\ StoreFails
        /\ reqs' = [reqs EXCEPT ![r] = [@ EXCEPT !.pc = "done", !.code = code,
                                                !.term = term, !.http = 500]]
     \/ /\ safeParse(code)
        /\ StoreOk
        /\ FindTicket(code) = 0
        /\ reqs' = [reqs EXCEPT ![r] = [@ EXCEPT !.pc = "done", !.code = code,
                                                !.term = term, !.http = 404]]
     \/ /\ safeParse(code)
        /\ StoreOk
        /\ FindTicket(code) # 0
        /\ reqs' = [reqs EXCEPT ![r] = [@ EXCEPT !.pc = "insert", !.code = code,
                                                !.term = term,
                                                !.ticket = FindTicket(code)]]
  /\ UNCHANGED <<storeVars, agentVars, ghostVars, issueVars, pageVars>>

\* checkin_log.insert(...).select().maybeSingle(): the store rejects a second
\* successful row of a ticket with code 23505, and may fail for another reason
InsertOutcomes(t) ==
  (IF UniqueViolation(t) THEN {"23505"} ELSE {"ok"})
  \cup (IF faults < MaxFaults THEN {"error"} ELSE {})

\* checkin_log.insert(row): a new row, after those in the relation
InsertRowMutant(log, row) == <<row>>
InsertRow(log, row) == Append(log, row)

\* the insert is atomic: its row is in the store exactly when no error is returned
Persisted(outcome) == outcome = "ok"

\* what the route does with the outcome of the insert: insertErr.code 23505 is
\* tested before any other insertErr
InsertBranchMutant(outcome) ==
  IF outcome = "ok" THEN "ok" ELSE "error"
InsertBranchNoErrorMutant(outcome) ==
  IF outcome = "23505" THEN "dupfetch" ELSE "ok"
InsertBranch(outcome) ==
  CASE outcome = "23505" -> "dupfetch"
    [] outcome = "error" -> "error"
    [] OTHER -> "ok"

\* 2) insert the check-in log row; 3) 23505 -> duplicate branch;
\* 4) other insert error -> 500; no terminalId -> 6) 200
InsertStep(r) ==
  /\ reqs[r].pc = "insert"
  /\ \E o \in InsertOutcomes(reqs[r].ticket) :
       LET t == reqs[r].ticket
           row == [ticket_id |-> t, ticket_code |-> reqs[r].code, success |-> TRUE,
                   terminal_id |-> Nullish(reqs[r].term, "web"), req |-> r]
           b == InsertBranch(o)
       IN /\ checkin_log' = IF Persisted(o) THEN InsertRow(checkin_log, row)
                           ELSE checkin_log
          /\ faults' = IF o = "error" THEN faults + 1 ELSE faults
          /\ reqs' = [reqs EXCEPT ![r] =
                CASE b = "dupfetch" -> [@ EXCEPT !.pc = "dupfetch"]
                  [] b = "error" -> [@ EXCEPT !.pc = "done", !.http = 500]
                  [] OTHER -> IF Truthy(reqs[r].term)
                              THEN [@ EXCEPT !.pc = "update"]
                              ELSE [@ EXCEPT !.pc = "done", !.http = 200]]
  /\ UNCHANGED <<print_jobs, agentVars, ghostVars, issueVars, pageVars>>

\* .eq("ticket_id", ticket.id).eq("success", true).order("created_at",
\* { ascending: false }).limit(1).maybeSingle(): the index of the row in
\* checkin_log, 0 for null
ExistingLog(t) ==
  IF SuccessRows(t) = {} THEN 0
  ELSE CHOOSE i \in SuccessRows(t) : \A k \in SuccessRows(t) : k <= i

\* 3) fetch the existing successful row and answer 409 with it in checkin_log;
\* only data is read from the result, so on an error the response carries null
DupFetchStep(r) ==
  /\ reqs[r].pc = "dupfetch"
  /\ \/ /\ StoreOk
        /\ reqs' = [reqs EXCEPT ![r] =
              [@ EXCEPT !.pc = "done", !.http = 409,
                        !.existingLog = ExistingLog(reqs[r].ticket)]]
     \/ /\ StoreFails
        /\ reqs' = [reqs EXCEPT ![r] =
              [@ EXCEPT !.pc = "done", !.http = 409, !.existingLog = 0]]
  /\ UNCHANGED <<storeVars, agentVars, ghostVars, issueVars, pageVars>>

\* .eq("ticket_id", ticket.id).eq("status", "pending")
PendingRowsAnyTicketMutant(t) ==
  {j \in JobIds : print_jobs[j].status = "pending"}
PendingRows(t) ==
  {j \in JobIds : TicketOf(j) = t /\ print_jobs[j].status = "pending"}

\* .select().maybeSingle() on the update: the rows the update is applied to
SingleRowMutant(rows) == rows
SingleRow(rows) == IF Cardinality(rows) = 1 THEN rows ELSE {}

\* the answer after step 5: printErr (an error result, or a throw caught by the
\* try around the update) is logged, and step 6 answers 200 either way
UpdateAnswerMutant(printErr) == IF printErr THEN 500 ELSE 200
UpdateAnswer(printErr) == 200

\* the row written by the update of step 5
ArmedRowMutant(row, term) ==
  [row EXCEPT !.terminal_id = term]
ArmedRow(row, term) ==
  [row EXCEPT !.status = "ready_to_print", !.terminal_id = term]

\* main() of the agent is in its startup loop, awaiting a processJob
DuringCatchup ==
  IF agentPc = "catchup" /\ procs[0].pc # "idle" THEN "catchup" ELSE "none"

\* 5) conditional update of the ticket's pending print job (a store error or a
\* throw is logged and swallowed); 6) 200.  update(...).select().maybeSingle()
\* asks the store for a single-object result: with no matching row it gives
\* data null and no error; with more than one matching row the store answers
\* with an error and applies the update to none of them
UpdateStep(r) ==
  /\ reqs[r].pc = "update"
  /\ LET t == reqs[r].ticket
         rows == PendingRows(t)
     IN \/ /\ StoreFails
           /\ UNCHANGED <<print_jobs, notif>>
           /\ reqs' = [reqs EXCEPT ![r] = [@ EXCEPT !.pc = "done",
                                                   !.http = UpdateAnswer(TRUE)]]
        \/ /\ StoreOk
           /\ print_jobs' = [j \in JobIds |->
                               IF j \in SingleRow(rows)
                               THEN ArmedRow(print_jobs[j], reqs[r].term)
                               ELSE print_jobs[j]]
           /\ IF SingleRow(rows) = {} THEN notif' = notif
              ELSE LET j == CHOOSE x \in rows : TRUE
                   IN Emit(j, ArmedRow(print_jobs[j], reqs[r].term))
           /\ reqs' = [reqs EXCEPT ![r] = [@ EXCEPT !.pc = "done",
                                 !.http = UpdateAnswer(Cardinality(rows) > 1),
                                 !.armedAt = DuringCatchup]]
  /\ UNCHANGED <<checkin_log, agentPc, channel, polling, pollPc, batch, procs,
                 ghostVars, issueVars, pageVars>>

CheckinStep(r, codes, terms) ==
  \/ \E code \in codes, term \in terms : FindStep(r, code, term)
  \/ InsertStep(r)
  \/ DupFetchStep(r)
  \/ UpdateStep(r)

(***************************************************************************)
(* The walk-in registration route, POST: it inserts an attendee, a ticket  *)
(* with a fresh code and checked_in_at = now, and a successful check-in    *)
(* row.  The model begins where the ticket row is inserted.                *)
(***************************************************************************)
\* a column left out of an insert: the row has ticket_id null
NoTicketId == 0

\* the rows of checkin_log inserted by the walk-in route for a ticket code
WalkinRows(code) ==
  {i \in 1 .. Len(checkin_log) :
     /\ checkin_log[i].ticket_id = NoTicketId
     /\ checkin_log[i].ticket_code = code}

\* insert({ ticket_code, terminal_id, success: true, message, created_at }) and
\* the response: 500 if the insert failed, else ok with the ticket code
RegisterWalkin(code, terminalId) ==
  /\ WalkinRows(code) = {}
  /\ \/ /\ StoreOk
        /\ checkin_log' = Append(checkin_log,
                                  [ticket_id |-> NoTicketId, ticket_code |-> code,
                                   success |-> TRUE, terminal_id |-> terminalId,
                                   req |-> 0])
     \/ /\ StoreFails
        /\ checkin_log' = checkin_log
  /\ UNCHANGED <<print_jobs, reqs, agentVars, ghostVars, issueVars, pageVars>>

(***************************************************************************)
(* The print dispatch agent.                                               *)
(***************************************************************************)
\* slot 0 is the processJob awaited by the startup loop or by the poll loop
\* (the two never overlap: polling starts after main has left the startup
\* loop); slot 1 is a processJob started by the realtime callback, which
\* handleJobChange does not wait for
LoopSlot == 0
PushSlots == {1}
Slots == {LoopSlot} \cup PushSlots
IdleProc == [pc |-> "idle", id |-> 0, att |-> 0]

\* a row as read by a query or carried by a payload: what processJob uses of it
Snapshot(j) == [id |-> j, att |-> print_jobs[j].attempt_count]

\* SetToSeq in ascending created_at (= ascending id) order
RECURSIVE Ascending(_)
Ascending(S) ==
  IF S = {} THEN <<>>
  ELSE LET m == CHOOSE x \in S : \A y \in S : x <= y
       IN <<Snapshot(m)>> \o Ascending(S \ {m})

Take(q, n) == SubSeq(q, 1, Min(Len(q), n))

\* .eq("status", "ready_to_print").eq("terminal_id", TERMINAL_ID)
ReadyRowsMutant ==
  {j \in JobIds : print_jobs[j].status = "ready_to_print"}
ReadyRows ==
  {j \in JobIds : print_jobs[j].status = "ready_to_print"
                  /\ print_jobs[j].terminal_id = TERMINAL_ID}

\* processJob(job) up to its first await: a job with no file_path throws into
\* the catch block, whose updateJob(failed) is then awaited; otherwise the
\* updateJob(printing) is awaited
EnterProcessJob(snap) ==
  [pc |-> IF print_jobs[snap.id].has_file THEN "markPrinting" ELSE "markFailed",
   id |-> snap.id, att |-> snap.att]

\* updateJob(id, fields): update ... .eq("id", id); a store error is logged only
updateJob(j, row) ==
  \/ /\ print_jobs' = [print_jobs EXCEPT ![j] = row]
     /\ Emit(j, row)
     /\ StoreOk
  \/ /\ StoreFails
     /\ UNCHANGED <<print_jobs, notif>>

\* await updateJob(job.id, {status: "printing", attempt_count: (job.attempt_count ?? 0) + 1})
MarkPrinting(s) ==
  /\ procs[s].pc = "markPrinting"
  /\ updateJob(procs[s].id, [print_jobs[procs[s].id] EXCEPT
                               !.status = "printing",
                               !.attempt_count = procs[s].att + 1])
  /\ procs' = [procs EXCEPT ![s].pc = "download"]
  /\ UNCHANGED <<checkin_log, reqs, agentPc, channel, polling, pollPc, batch,
                 printCount, rearmed, attempts, issueVars, pageVars>>

\* await downloadBuffer(job.file_path); fs.writeFileSync: returns or throws
Download(s) ==
  /\ procs[s].pc = "download"
  /\ \E ok \in BOOLEAN :
       procs' = [procs EXCEPT ![s].pc = IF ok THEN "print" ELSE "markFailed"]
  /\ UNCHANGED <<storeVars, reqs, agentPc, channel, polling, pollPc, batch, notif,
                 ghostVars, faults, issueVars, pageVars>>

\* await print(tmpFile, ...): the physical print action, which returns or throws
print(s) ==
  /\ procs[s].pc = "print"
  /\ printCount' = [printCount EXCEPT ![procs[s].id] = Bump(@)]
  /\ \E ok \in BOOLEAN :
       procs' = [procs EXCEPT ![s].pc = IF ok THEN "markPrinted" ELSE "markFailed"]
  /\ UNCHANGED <<storeVars, reqs, agentPc, channel, polling, pollPc, batch, notif,
                 rearmed, attempts, faults, issueVars, pageVars>>

\* await updateJob(job.id, {status: "printed"}); processJob returns
MarkPrinted(s) ==
  /\ procs[s].pc = "markPrinted"
  /\ updateJob(procs[s].id, [print_jobs[procs[s].id] EXCEPT !.status = "printed"])
  /\ procs' = [procs EXCEPT ![s] = IdleProc]
  /\ attempts' = [attempts EXCEPT ![procs[s].id] = Bump(@)]
  /\ UNCHANGED <<checkin_log, reqs, agentPc, channel, polling, pollPc, batch,
                 printCount, rearmed, issueVars, pageVars>>

\* catch: await updateJob(job.id, {status: "failed", last_error, attempt_count:
\* (job.attempt_count ?? 0) + 1}); processJob returns (updateJob reads the
\* store's error result and logs it, so nothing leaves the catch block)
MarkFailedMutant(s) ==
  /\ procs[s].pc = "markFailed"
  /\ updateJob(procs[s].id, [print_jobs[procs[s].id] EXCEPT
                               !.status = "failed",
                               !.last_error = "error",
                               !.attempt_count = procs[s].att + 1])
  /\ procs' = [procs EXCEPT ![s] = IdleProc]
  /\ attempts' = [attempts EXCEPT ![procs[s].id] = Bump(@)]
  /\ batch' = <<>>
  /\ UNCHANGED <<checkin_log, reqs, agentPc, channel, polling, pollPc,
                 printCount, rearmed, issueVars, pageVars>>
MarkFailed(s) ==
  /\ procs[s].pc = "markFailed"
  /\ updateJob(procs[s].id, [print_jobs[procs[s].id] EXCEPT
                               !.status = "failed",
                               !.last_error = "error",
                               !.attempt_count = procs[s].att + 1])
  /\ procs' = [procs EXCEPT ![s] = IdleProc]
  /\ attempts' = [attempts EXCEPT ![procs[s].id] = Bump(@)]
  /\ UNCHANGED <<checkin_log, reqs, agentPc, channel, polling, pollPc, batch,
                 printCount, rearmed, issueVars, pageVars>>

\* startPolling(): if (polling) return; polling = true; the first query is sent
startPollingMutant == UNCHANGED <<polling, pollPc>>
startPollingAgainMutant == polling' = TRUE /\ pollPc' = "query"
startPolling ==
  IF polling THEN UNCHANGED <<polling, pollPc>>
  ELSE polling' = TRUE /\ pollPc' = "query"

\* main: the startup query. Its error is not read: readyJobs is then undefined
\* and the loop is skipped, as it is for an empty result
StartupQuery ==
  /\ agentPc = "boot"
  /\ \/ StoreOk /\ batch' = Ascending(ReadyRows)
     \/ StoreFails /\ batch' = <<>>
  /\ agentPc' = IF batch' = <<>> THEN "realtime" ELSE "catchup"
  /\ UNCHANGED <<storeVars, reqs, channel, polling, pollPc, procs, notif, ghostVars,
                 issueVars, pageVars>>

\* main: for (const job of readyJobs) await processJob(job)
StartupLoop ==
  /\ agentPc = "catchup"
  /\ procs[LoopSlot].pc = "idle"
  /\ IF batch = <<>>
     THEN agentPc' = "realtime" /\ UNCHANGED <<batch, procs>>
     ELSE /\ procs' = [procs EXCEPT ![LoopSlot] = EnterProcessJob(Head(batch))]
          /\ batch' = Tail(batch)
          /\ UNCHANGED agentPc
  /\ UNCHANGED <<storeVars, reqs, channel, polling, pollPc, notif, ghostVars, faults,
                 issueVars, pageVars>>

\* main: await startRealtime(), which subscribes the channel; if it throws,
\* startPolling()
StartRealtime ==
  /\ agentPc = "realtime"
  /\ agentPc' = "steady"
  /\ \/ channel' = "joining" /\ UNCHANGED <<polling, pollPc>>
     \/ UNCHANGED channel /\ startPolling
  /\ UNCHANGED <<storeVars, reqs, batch, procs, notif, ghostVars, faults,
                 issueVars, pageVars>>

\* the subscribe callback: the channel reports a status; CHANNEL_ERROR starts
\* the poll loop, every other status is at most logged (CLOSED stands for
\* TIMED_OUT too: the callback has a branch for neither)
ChannelStatuses == {"SUBSCRIBED", "CHANNEL_ERROR", "CLOSED"}
SubscribeCallback(status) ==
  /\ agentPc = "steady"
  /\ channel # "none"
  /\ channel # status
  /\ channel' = status
  /\ IF status = "CHANNEL_ERROR" THEN startPolling ELSE UNCHANGED <<polling, pollPc>>
  /\ UNCHANGED <<storeVars, reqs, agentPc, batch, procs, notif, ghostVars, faults,
                 issueVars, pageVars>>

\* the postgres_changes callback: handleJobChange(payload), not awaited
handleJobChange(p, s) ==
  /\ p \in notif
  /\ notif' = notif \ {p}
  /\ IF shouldProcessJob(p)
     THEN /\ procs[s].pc = "idle"
          /\ procs' = [procs EXCEPT ![s] = EnterProcessJob([id |-> p.id,
                                                            att |-> p.attempt_count])]
     ELSE UNCHANGED procs
  /\ UNCHANGED <<storeVars, reqs, agentPc, channel, polling, pollPc, batch, ghostVars, faults,
                 issueVars, pageVars>>

\* startPolling: the query of one loop iteration; an error is thrown to the
\* catch of the iteration, which goes on to the sleep
PollQuery ==
  /\ pollPc = "query"
  /\ \/ StoreOk /\ batch' = Take(Ascending(ReadyRows), PollLimit) /\ pollPc' = "batch"
     \/ StoreFails /\ batch' = <<>> /\ pollPc' = "sleep"
  /\ UNCHANGED <<storeVars, reqs, agentPc, channel, polling, procs, notif, ghostVars,
                 issueVars, pageVars>>

\* startPolling: for (const job of jobs || []) await processJob(job)
PollLoop ==
  /\ pollPc = "batch"
  /\ procs[LoopSlot].pc = "idle"
  /\ IF batch = <<>>
     THEN pollPc' = "sleep" /\ UNCHANGED <<batch, procs>>
     ELSE /\ procs' = [procs EXCEPT ![LoopSlot] = EnterProcessJob(Head(batch))]
          /\ batch' = Tail(batch)
          /\ UNCHANGED pollPc
  /\ UNCHANGED <<storeVars, reqs, agentPc, channel, polling, notif, ghostVars, faults,
                 issueVars, pageVars>>

\* startPolling: the sleep of POLL_INTERVAL is over; while (polling)
PollWake ==
  /\ pollPc = "sleep"
  /\ pollPc' = IF polling THEN "query" ELSE "off"
  /\ UNCHANGED <<storeVars, reqs, agentPc, channel, polling, batch, procs, notif,
                 ghostVars, faults, issueVars, pageVars>>

\* the re-arm edge of the job state machine: an operator (or a retry policy of
\* the deployment) sets a failed job back to ready_to_print
ReArm(j) ==
  /\ print_jobs[j].status = "failed"
  /\ ~rearmed[j]
  /\ Cardinality({i \in JobIds : rearmed[i]}) < MaxRearms
  /\ print_jobs' = [print_jobs EXCEPT ![j].status = "ready_to_print"]
  /\ Emit(j, print_jobs'[j])
  /\ rearmed' = [rearmed EXCEPT ![j] = TRUE]
  /\ UNCHANGED <<checkin_log, reqs, agentPc, channel, polling, pollPc, batch, procs,
                 printCount, attempts, faults, issueVars, pageVars>>

\* the end of the agent process.  main registers no signal handler and keeps no
\* handle to clear the flag or to remove the channel (startRealtime's return
\* value is dropped), so the process ends wherever it is: its loops, its
\* processJob invocations and its channel go with it, the store stays as it is
ProcessExit ==
  /\ agentPc # "stopped"
  /\ agentPc' = "stopped"
  /\ channel' = "none"
  /\ polling' = FALSE
  /\ pollPc' = "off"
  /\ batch' = <<>>
  /\ procs' = [s \in Slots |-> IdleProc]
  /\ notif' = {}
  /\ UNCHANGED <<storeVars, reqs, ghostVars, faults, issueVars, pageVars>>

\* the agent is launched again after its process has ended: main() starts anew
Launch ==
  /\ agentPc = "stopped"
  /\ agentPc' = "boot"
  /\ UNCHANGED <<storeVars, reqs, channel, polling, pollPc, batch, procs, notif,
                 ghostVars, faults, issueVars, pageVars>>

AgentStep ==
  \/ StartupQuery
  \/ StartupLoop
  \/ StartRealtime
  \/ \E status \in ChannelStatuses : SubscribeCallback(status)
  \/ \E p \in notif, s \in PushSlots : handleJobChange(p, s)
  \/ PollQuery
  \/ PollLoop
  \/ PollWake
  \/ \E s \in Slots : MarkPrinting(s)
  \/ \E s \in Slots : Download(s)
  \/ \E s \in Slots : print(s)
  \/ \E s \in Slots : MarkPrinted(s)
  \/ \E s \in Slots : MarkFailed(s)

(***************************************************************************)
(* The ticket service: a send of the ticket of an attendee, which uploads  *)
(* the PDF and enqueues a print job.  The tickets of the model are issued: *)
(* findTicketByAttendee finds `existing`, and a send goes on only with     *)
(* forceResend.  A print_jobs row not yet inserted has status "absent".    *)
(***************************************************************************)
EventId == "event"
\* `tickets/${eventId}/${ticketCode}.pdf`
filePath(ticketCode) == <<"tickets", EventId, ticketCode, "pdf">>

IdleSend == [pc |-> "idle", code |-> 0, ticket |-> 0]
AbsentRows == {j \in JobIds : print_jobs[j].status = "absent"}

\* buildAndSendTicketForAttendee(att, forceResend) up to step 5: an existing
\* ticket without forceResend returns ticket_exists; otherwise the code of the
\* existing ticket is kept; if the PDF generation throws, pdfBase64 is null and
\* nothing is uploaded or enqueued
buildAndSendTicketForAttendee(t, forceResend) ==
  /\ send.pc = "idle"
  /\ AbsentRows # {}
  /\ IF ~forceResend THEN UNCHANGED send
     ELSE \/ send' = [pc |-> "upload", code |-> t, ticket |-> t]
          \/ UNCHANGED send
  /\ UNCHANGED <<storeVars, reqs, agentVars, ghostVars, faults, storage, pageVars>>

\* if (uploadErr) throw uploadErr
UploadBranchMutant(uploadErr) == "insert"
UploadBranch(uploadErr) == IF uploadErr THEN "throw" ELSE "insert"

\* uploadPdfAndEnqueuePrint: the upload to filePath with upsert; a throw is
\* caught by the caller, which goes on to the e-mail
Upload ==
  /\ send.pc = "upload"
  /\ \/ /\ StoreOk
        /\ storage' = storage \cup {filePath(send.code)}
        /\ send' = [send EXCEPT !.pc = UploadBranch(FALSE)]
     \/ /\ StoreFails
        /\ storage' = storage
        /\ send' = IF UploadBranch(TRUE) = "throw" THEN IdleSend
                   ELSE [send EXCEPT !.pc = UploadBranch(TRUE)]
  /\ UNCHANGED <<storeVars, reqs, agentVars, ghostVars, pageVars>>

\* the row of insert([{ ticket_id, file_path, status: "pending", ... }])
NewPrintJob(ticketId, path) ==
  [ticket_id |-> ticketId, status |-> "pending", terminal_id |-> Null,
   attempt_count |-> 0, last_error |-> Null, has_file |-> path \in storage,
   file_path |-> path]

\* uploadPdfAndEnqueuePrint: the insert into print_jobs (created_at is now, so
\* the row takes the next id); if (pjErr) throw pjErr
InsertPrintJob ==
  /\ send.pc = "insert"
  /\ \/ /\ StoreOk
        /\ LET j == CHOOSE i \in AbsentRows : \A k \in AbsentRows : i <= k
           IN print_jobs' = [print_jobs EXCEPT
                               ![j] = NewPrintJob(send.ticket, filePath(send.code))]
     \/ /\ StoreFails
        /\ print_jobs' = print_jobs
  /\ send' = IdleSend
  /\ UNCHANGED <<checkin_log, reqs, agentVars, ghostVars, storage, pageVars>>

uploadPdfAndEnqueuePrint ==
  \/ Upload
  \/ InsertPrintJob

(***************************************************************************)
(* The scan page: handleScan, called by the QR scanner for each detection. *)
(* The check-in service is seen from the page as the outcome of the fetch. *)
(***************************************************************************)
ScanSlots == 1 .. MaxScans
IdleScan == [pc |-> "idle", code |-> 0]

\* if (now - last < 1300) return
Debounced(code) == code \in lastSeen

\* if (processingRef.current.has(code)) return
AlreadyProcessingMutant(code) == FALSE
AlreadyProcessing(code) == code \in processing

\* handleScan up to its await of the fetch: the debounce, the test of the
\* processing set and the add run without an await between them
handleScan(k, code) ==
  /\ scans[k].pc = "idle"
  /\ IF Debounced(code) THEN UNCHANGED pageVars
     ELSE /\ lastSeen' = lastSeen \cup {code}
          /\ IF AlreadyProcessing(code) THEN UNCHANGED <<processing, scans>>
             ELSE /\ processing' = processing \cup {code}
                  /\ scans' = [scans EXCEPT ![k] = [pc |-> "fetch", code |-> code]]
  /\ UNCHANGED <<storeVars, reqs, agentVars, ghostVars, faults, issueVars>>

\* 1300 ms have passed since the code was last recorded in lastSeenRef
DebounceOver(code) ==
  /\ code \in lastSeen
  /\ lastSeen' = lastSeen \ {code}
  /\ UNCHANGED <<storeVars, reqs, agentVars, ghostVars, faults, issueVars,
                 processing, scans>>

\* the fetch settles: the response is ok, or a rejection (res.ok or data.ok
\* false), or the fetch or res.json() throws; the finally block deletes the code
FetchOutcomes == {"ok", "rejected", "network error"}
FetchSettles(k, outcome) ==
  /\ scans[k].pc = "fetch"
  /\ outcome \in FetchOutcomes
  /\ processing' = processing \ {scans[k].code}
  /\ scans' = [scans EXCEPT ![k] = IdleScan]
  /\ UNCHANGED <<storeVars, reqs, agentVars, ghostVars, faults, issueVars, lastSeen>>

(***************************************************************************)
(* Initial states.  A ticket was issued with one print job (enqueued in    *)
(* pending by the ticket service).  The check-in service is studied from   *)
(* every state an earlier run of the system leaves a ticket in; the agent  *)
(* is studied from its launch, with jobs still pending or left in          *)
(* ready_to_print for its terminal by check-ins made before the launch.    *)
(***************************************************************************)
JobRow(st, term, att, err, file) ==
  [status |-> st, terminal_id |-> term, attempt_count |-> att, last_error |-> err,
   has_file |-> file]
\* the print_jobs row of a job enqueued for ticket t
Enqueued(row, t) ==
  [ticket_id |-> t, status |-> row.status, terminal_id |-> row.terminal_id,
   attempt_count |-> row.attempt_count, last_error |-> row.last_error,
   has_file |-> row.has_file,
   file_path |-> IF row.status = "absent" THEN <<>> ELSE filePath(t)]

\* what an earlier run leaves of a ticket: its job (ticket t has job t), and
\* whether it is checked in (inflight: by a request from terminal `from` whose
\* update of step 5 is still to come)
Histories ==
  { [job |-> JobRow("pending", Null, 0, Null, TRUE), checked |-> FALSE, prints |-> 0, inflight |-> FALSE, from |-> Null],
    [job |-> JobRow("pending", Null, 0, Null, TRUE), checked |-> TRUE, prints |-> 0, inflight |-> FALSE, from |-> Null],
    [job |-> JobRow("ready_to_print", "T1", 0, Null, TRUE), checked |-> TRUE, prints |-> 0, inflight |-> FALSE, from |-> Null],
    [job |-> JobRow("printing", "T1", 1, Null, TRUE), checked |-> TRUE, prints |-> 0, inflight |-> FALSE, from |-> Null],
    [job |-> JobRow("printed", "T1", 1, Null, TRUE), checked |-> TRUE, prints |-> 1, inflight |-> FALSE, from |-> Null],
    [job |-> JobRow("failed", "T1", 1, "error", TRUE), checked |-> TRUE, prints |-> 1, inflight |-> FALSE, from |-> Null] }

\* what an agent may find at its launch: a job left in ready_to_print for its
\* terminal by an earlier check-in (whose row has a file_path or, the case
\* processJob tests first, has none), or a pending job whose ticket is being
\* checked in, the update of step 5 still in flight
LaunchHistories ==
  { [job |-> JobRow("ready_to_print", TERMINAL_ID, 0, Null, file), checked |-> TRUE,
     prints |-> 0, inflight |-> FALSE, from |-> Null] : file \in BOOLEAN }
  \cup { [job |-> JobRow("pending", Null, 0, Null, TRUE), checked |-> TRUE,
          prints |-> 0, inflight |-> TRUE, from |-> TERMINAL_ID] }

\* the check-in rows of the tickets checked in by the earlier run
RECURSIVE LogOf(_, _)
LogOf(h, S) ==
  IF S = {} THEN <<>>
  ELSE LET t == CHOOSE x \in S : \A y \in S : x <= y
       IN (IF h[t].checked
           THEN << [ticket_id |-> t, ticket_code |-> t, success |-> TRUE,
                    terminal_id |-> IF h[t].inflight THEN h[t].from
                                    ELSE IF h[t].job.terminal_id = Null THEN "web"
                                    ELSE h[t].job.terminal_id,
                    req |-> IF h[t].inflight THEN t ELSE 0] >>
           ELSE <<>>) \o LogOf(h, S \ {t})

\* owner[j] is the ticket that job j was enqueued for
InitWith(h, owner) ==
  /\ checkin_log = LogOf(h, Tickets)
  /\ print_jobs = [j \in JobIds |-> Enqueued(h[j].job, owner[j])]
  /\ reqs = [r \in Reqs |->
               IF r \in Tickets /\ h[r].inflight
               THEN [NewReq EXCEPT !.pc = "update", !.code = r, !.term = h[r].from,
                                   !.ticket = r]
               ELSE NewReq]
  /\ channel = "none"
  /\ polling = FALSE
  /\ pollPc = "off"
  /\ batch = <<>>
  /\ procs = [s \in Slots |-> IdleProc]
  /\ notif = {}
  /\ printCount = [j \in JobIds |-> h[j].prints]
  /\ rearmed = [j \in JobIds |-> FALSE]
  /\ attempts = [j \in JobIds |-> h[j].job.attempt_count]
  /\ faults = 0
  /\ storage = {print_jobs[j].file_path : j \in {i \in JobIds : print_jobs[i].has_file}}
  /\ send = IdleSend
  /\ lastSeen = {}
  /\ processing = {}
  /\ scans = [k \in ScanSlots |-> IdleScan]

\* every ticket was sent once: job t was enqueued for ticket t
InitFrom(h) == InitWith(h, [j \in JobIds |-> j])

\* the check-in service alone: no agent is running.  One ticket comes with any
\* history, the others with their job still pending
Init ==
  /\ \E h \in [Tickets -> Histories] :
       /\ \A t \in Tickets : t # 1 => h[t].job.status = "pending"
       /\ InitFrom(h)
  /\ agentPc = "off"

Next == \E r \in Reqs : CheckinStep(r, Codes \cup {BadCode}, TermInputs)

Spec == Init /\ [][Next]_vars

\* the check-in service after ticket 1 was sent twice (buildAndSendTicketForAttendee
\* enqueues a print job at every send): both jobs belong to ticket 1 and are
\* pending, ticket 1 is not checked in or was checked in without a terminal, and
\* ticket 2 has no print job
ResendInit ==
  /\ \E h \in [Tickets -> {x \in Histories : x.job.status = "pending"}] :
       /\ ~h[2].checked
       /\ InitWith(h, [j \in JobIds |-> 1])
  /\ agentPc = "off"

ResendSpec == ResendInit /\ [][Next]_vars

\* the ticket service and the check-in service: ticket 1 was sent once (its job
\* is pending), ticket 2 was issued but no job was enqueued for it (the PDF
\* generation or the enqueue of its send failed)
NotEnqueued ==
  [job |-> JobRow("absent", Null, 0, Null, FALSE), checked |-> FALSE, prints |-> 0,
   inflight |-> FALSE, from |-> Null]

IssueInit ==
  /\ \E h1 \in {x \in Histories : x.job.status = "pending" /\ ~x.checked} :
       InitWith([t \in Tickets |-> IF t = 1 THEN h1 ELSE NotEnqueued],
                [j \in JobIds |-> IF j = 1 THEN 1 ELSE 0])
  /\ agentPc = "off"

IssueNext ==
  \/ \E t \in Tickets, forceResend \in BOOLEAN :
       buildAndSendTicketForAttendee(t, forceResend)
  \/ uploadPdfAndEnqueuePrint
  \/ \E r \in Reqs : CheckinStep(r, Tickets, {TERMINAL_ID, Undefined})

IssueSpec == IssueInit /\ [][IssueNext]_vars

\* the walk-in route and the check-in service: ticket 2 is the ticket of a
\* walk-in (the route has inserted it, and enqueues no print job for it), its
\* check-in row is still to be inserted; ticket 1 was sent once
WalkinTicket == 2

WalkinInit == IssueInit

WalkinNext ==
  \/ \E terminalId \in Terminals : RegisterWalkin(WalkinTicket, terminalId)
  \/ \E r \in Reqs : CheckinStep(r, Tickets, {TERMINAL_ID, Undefined})

WalkinSpec == WalkinInit /\ [][WalkinNext]_vars

\* the scan page of a terminal, scanning the codes of the tickets and a code of
\* no ticket
ScanInit == IssueInit

ScanNext ==
  \/ \E k \in ScanSlots, code \in Codes : handleScan(k, code)
  \/ \E code \in Codes : DebounceOver(code)
  \/ \E k \in ScanSlots, outcome \in FetchOutcomes : FetchSettles(k, outcome)

ScanSpec == ScanInit /\ [][ScanNext]_vars

\* the agent at its launch, with the check-in service and the re-arm beside it
AgentInit ==
  /\ \E h \in [Tickets -> LaunchHistories] : InitFrom(h)
  /\ agentPc = "boot"

AgentNext ==
  \/ AgentStep
  \/ \E r \in Reqs : UpdateStep(r)
  \/ \E j \in JobIds : ReArm(j)

AgentSpec == AgentInit /\ [][AgentNext]_vars

\* the agent at a restart: every job was left in ready_to_print for its terminal,
\* no check-in is under way
CatchupInit ==
  /\ \E h \in [Tickets -> {x \in LaunchHistories : ~x.inflight}] : InitFrom(h)
  /\ agentPc = "boot"

CatchupNext ==
  \/ AgentStep
  \/ \E j \in JobIds : ReArm(j)

CatchupSpec == CatchupInit /\ [][CatchupNext]_vars

\* the agent at a restart, stopped at some point of its run
ShutdownNext ==
  \/ AgentStep
  \/ \E j \in JobIds : ReArm(j)
  \/ ProcessExit

ShutdownSpec == CatchupInit /\ [][ShutdownNext]_vars

\* the agent at a restart, which may crash (its process ends) and be launched
\* again any number of times
RestartNext ==
  \/ AgentStep
  \/ \E j \in JobIds : ReArm(j)
  \/ ProcessExit
  \/ Launch

RestartSpec == CatchupInit /\ [][RestartNext]_vars

\* the agent of terminal T1 at its launch beside another terminal: job 1 is as
\* in LaunchHistories, job 2 was or is being armed by a check-in from terminal T2
TerminalInit ==
  /\ \E h \in [Tickets -> LaunchHistories \cup
                    { [job |-> JobRow("ready_to_print", "T2", 0, Null, TRUE),
                       checked |-> TRUE, prints |-> 0, inflight |-> FALSE, from |-> Null],
                      [job |-> JobRow("pending", Null, 0, Null, TRUE),
                       checked |-> TRUE, prints |-> 0, inflight |-> TRUE, from |-> "T2"] }] :
       /\ h[1] \in LaunchHistories
       /\ h[2] \notin LaunchHistories
       /\ InitFrom(h)
  /\ agentPc = "boot"

TerminalSpec == TerminalInit /\ [][AgentNext]_vars

\* the check-in service and the agent together: the agent is launched with job 2
\* left ready_to_print for its terminal, and ticket 1, not yet checked in, is
\* checked in from that terminal while the agent runs
SystemInit ==
  /\ \E h \in [Tickets -> Histories \cup LaunchHistories] :
       /\ h[1].job.status = "pending" /\ ~h[1].checked
       /\ h[2].job.status = "ready_to_print" /\ h[2].job.has_file
       /\ InitFrom(h)
  /\ agentPc = "boot"

SystemNext ==
  \/ AgentStep
  \/ \E r \in Reqs : CheckinStep(r, {1}, {TERMINAL_ID})

SystemSpec == SystemInit /\ [][SystemNext]_vars

(***************************************************************************)
(* Properties of the check-in service (specification Spec).                *)
(***************************************************************************)
\* the requests that have arrived for ticket t, and those of them answered
Arrived(t) == {r \in Reqs : reqs[r].pc # "new" /\ reqs[r].code = t}
Answered(t, http) == {r \in Arrived(t) : reqs[r].pc = "done" /\ reqs[r].http = http}
\* the ticket was checked in before the run began
CheckedInBefore(t) == \E i \in SuccessRows(t) : checkin_log[i].req = 0
JobsOf(t) == {j \in JobIds : TicketOf(j) = t}

\* C1: for a ticket not yet checked in and N >= 1 check-in requests for its code
\* running in any interleaving with no store failure, once all N are answered
\* exactly one got 200 and the other N-1 got 409, and the store holds exactly
\* one successful check-in row for the ticket; at no time does it hold two.
C1_ExactlyOneCheckedIn ==
  \A t \in Tickets :
    /\ Cardinality(SuccessRows(t)) <= 1
    /\ (/\ ~CheckedInBefore(t)
        /\ faults = 0
        /\ Arrived(t) # {}
        /\ \A r \in Arrived(t) : reqs[r].pc = "done")
       => /\ Cardinality(Answered(t, 200)) = 1
          /\ Cardinality(Answered(t, 409)) = Cardinality(Arrived(t)) - 1
          /\ Cardinality(SuccessRows(t)) = 1

\* every request of the run went to the same, unchecked ticket, and all are answered
C1_Witness ==
  \E t \in Tickets :
    /\ ~CheckedInBefore(t)
    /\ faults = 0
    /\ Arrived(t) = Reqs
    /\ \A r \in Reqs : reqs[r].pc = "done"
    /\ Cardinality(Answered(t, 409)) = NumReqs - 1

\* C4: a step of a check-in changes a print job only by taking it from pending to
\* ready_to_print: a job that is ready_to_print, printing, printed or failed keeps
\* its status and its terminal_id, and since no step returns a job to pending, a
\* job is armed by at most one check-in.
C4_OnlyPendingIsArmed ==
  [][\A j \in JobIds :
       print_jobs'[j] # print_jobs[j]
         => /\ print_jobs[j].status = "pending"
            /\ print_jobs'[j].status = "ready_to_print"]_vars

\* a duplicate check-in was answered for a ticket whose job another check-in of
\* the run had armed
C4_Witness ==
  \E t \in Tickets, j \in JobIds :
    /\ TicketOf(j) = t
    /\ ~CheckedInBefore(t)
    /\ Answered(t, 200) # {}
    /\ Answered(t, 409) # {}
    /\ print_jobs[j].status = "ready_to_print"

\* C5 as claimed: after a 200 for a ticket whose job was pending, with no store
\* failure, the job is ready_to_print and carries the supplied terminalId, or
\* "web" when terminalId was left out.  (In Spec only a check-in moves a job, and
\* a 200 is given only for a ticket not checked in before, whose job is pending.)
C5_ArmedWithTerminalOrWeb ==
  \A r \in Reqs :
    (reqs[r].pc = "done" /\ reqs[r].http = 200 /\ faults = 0)
      => \A j \in JobsOf(reqs[r].ticket) :
           /\ print_jobs[j].status = "ready_to_print"
           /\ print_jobs[j].terminal_id = Nullish(reqs[r].term, "web")

\* C5 amended: after such a 200 the job is ready_to_print with the supplied
\* terminalId when a non-empty terminalId was supplied; when terminalId was left
\* out or empty the job is left pending with no terminal.
C5_ArmedWhenTerminalSupplied ==
  \A r \in Reqs :
    (reqs[r].pc = "done" /\ reqs[r].http = 200 /\ faults = 0)
      => \A j \in JobsOf(reqs[r].ticket) :
           IF reqs[r].term \notin {Undefined, ""}
           THEN /\ print_jobs[j].status = "ready_to_print"
                /\ print_jobs[j].terminal_id = reqs[r].term
           ELSE /\ print_jobs[j].status = "pending"
                /\ print_jobs[j].terminal_id = Null

\* a check-in from terminal T2 was answered 200 and armed the job for T2
C5_Witness ==
  \E r \in Reqs, j \in JobIds :
    /\ reqs[r].pc = "done" /\ reqs[r].http = 200 /\ faults = 0
    /\ reqs[r].term = "T2"
    /\ TicketOf(j) = reqs[r].ticket
    /\ print_jobs[j].status = "ready_to_print"
    /\ print_jobs[j].terminal_id = "T2"

(***************************************************************************)
(* Properties of the print dispatch agent (specification AgentSpec).       *)
(***************************************************************************)
InFlight(j) == {s \in Slots : procs[s].pc # "idle" /\ procs[s].id = j}
\* nothing of the agent is under way: no processJob, no payload, no batch
Quiet == /\ \A s \in Slots : procs[s].pc = "idle"
         /\ notif = {}
         /\ batch = <<>>
\* in AgentSpec a job is ready_to_print at the launch unless the check-in of its
\* ticket is still in flight then
ReadyAtLaunch(j) == reqs[TicketOf(j)].pc = "new"

\* C2: a job that was armed once and not re-armed is printed at most once (no
\* store call failing), whichever of the push listener, the poller and the
\* catch-up saw it.
C2_PrintedOnce ==
  \A j \in JobIds : (~rearmed[j] /\ faults = 0) => printCount[j] <= 1

\* C3: at most one processJob of a given job id is in flight in the agent.
C3_OneProcessingInFlight ==
  \A j \in JobIds : Cardinality(InFlight(j)) <= 1

\* C6: every change of a job's status follows an edge of
\* pending -> ready_to_print -> printing -> {printed, failed}, failed -> ready_to_print.
C6_StatusFollowsEdges ==
  [][LET Edges == { <<"pending", "ready_to_print">>, <<"ready_to_print", "printing">>,
                    <<"printing", "printed">>, <<"printing", "failed">>,
                    <<"failed", "ready_to_print">> }
     IN \A j \in JobIds :
          print_jobs'[j].status # print_jobs[j].status
            => <<print_jobs[j].status, print_jobs'[j].status>> \in Edges]_vars

\* C7: once a job is printed, no step changes its status or its attempt_count.
C7_PrintedIsTerminal ==
  [][\A j \in JobIds :
       print_jobs[j].status = "printed"
         => /\ print_jobs'[j].status = "printed"
            /\ print_jobs'[j].attempt_count = print_jobs[j].attempt_count]_vars

\* C8: a job that was ready_to_print for the agent's terminal at the launch is
\* processed after it: the agent does not come to rest (main past the catch-up,
\* channel subscribed, no poll loop, nothing under way) with that job still
\* ready_to_print and never attempted.
C8_LaunchJobsProcessed ==
  \A j \in JobIds :
    ~ /\ ReadyAtLaunch(j)
      /\ print_jobs[j].status = "ready_to_print"
      /\ attempts[j] = 0
      /\ agentPc = "steady" /\ channel = "SUBSCRIBED" /\ ~polling /\ Quiet

\* C9: while the agent runs, a job armed for its terminal is discovered even if
\* its payload is not delivered: the agent is not at rest without a poll loop
\* (channel subscribed or closed, nothing under way) while such a job, armed
\* after the launch, is ready_to_print.
C9_PollFindsReadyJob ==
  \A j \in JobIds :
    ~ /\ ~ReadyAtLaunch(j)
      /\ print_jobs[j].status = "ready_to_print"
      /\ print_jobs[j].terminal_id = TERMINAL_ID
      /\ agentPc = "steady" /\ channel \in {"SUBSCRIBED", "CLOSED"}
      /\ ~polling /\ Quiet
      /\ faults = 0

\* C10: attempt_count counts the completed processing attempts of a job exactly
\* (no store call failing): whenever no attempt on the job is in flight, its
\* attempt_count is the number of attempts completed (2 standing for 2 or more).
C10_AttemptCountExact ==
  \A j \in JobIds :
    (InFlight(j) = {} /\ faults = 0)
      => \/ print_jobs[j].attempt_count = attempts[j]
         \/ attempts[j] = 2 /\ print_jobs[j].attempt_count >= 2

\* C11: the stored attempt_count of a job never decreases from one state to the
\* next, whichever of the check-in update, push, poll, catch-up, processing and
\* re-arm steps is taken.
C11_AttemptCountMonotonic ==
  [][\A j \in JobIds :
       print_jobs'[j].attempt_count >= print_jobs[j].attempt_count]_vars

(***************************************************************************)
(* Error handling of the check-in service (specification Spec).            *)
(***************************************************************************)
\* C12: a check-in whose (well-formed) code matches no ticket is answered 404 by
\* the step that looks the ticket up, unless that lookup itself fails (500); the
\* step inserts no check-in row and changes no print job, and the request, being
\* answered, takes no further step.
C12_UnknownTicketNotFound ==
  [][\A r \in Reqs :
       (/\ reqs[r].pc = "new" /\ reqs'[r].pc # "new"
        /\ reqs'[r].code \notin Tickets /\ reqs'[r].code # BadCode)
       => /\ reqs'[r].pc = "done"
          /\ reqs'[r].http = IF faults' = faults THEN 404 ELSE 500
          /\ checkin_log' = checkin_log
          /\ print_jobs' = print_jobs]_vars

\* a request with an unknown code was answered 404 while a ticket has a pending job
C12_Witness ==
  \E r \in Reqs :
    /\ reqs[r].pc = "done" /\ reqs[r].code = 0 /\ reqs[r].http = 404
    /\ \E j \in JobIds : print_jobs[j].status = "pending"

\* C13: once the insert of a request's check-in row has succeeded, the request
\* is answered 200 and with nothing else, whether the print-job update fails in
\* the store, finds no pending job, finds more than one, or is not made; and the
\* inserted row stays in the store.
C13_InsertedMeans200 ==
  \A r \in Reqs :
    (\E i \in 1 .. Len(checkin_log) : checkin_log[i].req = r)
      <=> \/ reqs[r].pc = "update"
          \/ reqs[r].pc = "done" /\ reqs[r].http = 200

\* a check-in of the twice-sent ticket (two pending jobs) and a check-in of the
\* ticket without a job, both from a terminal, have been answered 200
C13_Witness ==
  \E r, q \in Reqs :
    /\ reqs[r].pc = "done" /\ reqs[r].http = 200 /\ reqs[r].term = "T1"
    /\ Cardinality(JobsOf(reqs[r].ticket)) = 2
    /\ reqs[q].pc = "done" /\ reqs[q].http = 200 /\ reqs[q].term = "T1"
    /\ JobsOf(reqs[q].ticket) = {}

(***************************************************************************)
(* Properties of the agent at a restart (specification CatchupSpec).       *)
(***************************************************************************)
\* C14: a failure in processing a job stays in that job: a failing download or
\* print leads the processJob to its catch block (a failing status write is
\* logged by updateJob), and the return of a processJob, failed or not, leaves
\* main, the channel, the poll loop and the rest of the batch as they were, so
\* the loop that awaits it goes on with the remaining jobs.
C14_FailureStaysInJob ==
  [][\A s \in Slots :
       /\ (procs[s].pc \in {"download", "print"} /\ procs'[s].pc # procs[s].pc)
            => procs'[s].pc \in {"print", "markPrinted", "markFailed"}
       /\ (procs[s].pc # "idle" /\ procs'[s].pc = "idle")
            => /\ batch' = batch
               /\ agentPc' = agentPc /\ channel' = channel
               /\ polling' = polling /\ pollPc' = pollPc]_vars

\* the startup loop: the first job of the batch failed (one attempt, no print of
\* it succeeded) and the loop went on to print the second
C14_Witness ==
  /\ agentPc = "catchup"
  /\ print_jobs[1].status = "failed" /\ attempts[1] = 1
  /\ print_jobs[2].status = "printed" /\ attempts[2] = 1 /\ printCount[2] = 1

\* C20: the printing status and the raised attempt counter are written before
\* the download and before the print action, so whenever the print action is
\* invoked for a job, the stored status of that job is printing, also when the
\* status write returned a store error.
C20_PrintingWhenPrinted ==
  [][\A s \in Slots :
       (procs[s].pc = "print" /\ procs'[s].pc # "print")
         => print_jobs[procs[s].id].status = "printing"]_vars

\* C21: every attempt on a job ends with the job printed or, after a failure of
\* whatever kind (download, print device, store error on a status write), failed
\* with last_error set: once an attempt has completed and none is in flight, a job
\* that was not re-armed since is not left in ready_to_print or printing.
C21_FailureEndsFailed ==
  \A j \in JobIds :
    (attempts[j] >= 1 /\ InFlight(j) = {} /\ ~rearmed[j])
      => /\ print_jobs[j].status \in {"printed", "failed"}
         /\ print_jobs[j].status = "failed" => print_jobs[j].last_error # Null

\* C23: when the channel reports CHANNEL_ERROR, or the start of the realtime
\* listener fails (no channel exists after it), the poll loop is running from
\* that step on; a running poll loop is never stopped, whatever the channel
\* reports afterwards: it is always at its query, in its batch or in its sleep.
C23_PollStartedOnError ==
  [][/\ (channel # "CHANNEL_ERROR" /\ channel' = "CHANNEL_ERROR") => polling'
     /\ (agentPc = "realtime" /\ agentPc' = "steady" /\ channel' = "none") => polling'
     /\ polling => polling'
     /\ polling' => pollPc' \in {"query", "batch", "sleep"}]_vars

\* the channel has reconnected after an error and the poll loop, still running,
\* has found a re-armed job
C23_Witness ==
  /\ channel = "SUBSCRIBED" /\ polling /\ pollPc = "batch"
  /\ \E i \in 1 .. Len(batch) : rearmed[batch[i].id]

\* C24: the jobs of a batch (startup query or poll query) are processed one
\* after another in ascending created_at order: the batch is ascending, the job
\* the loop is processing was created before those still in the batch, and when
\* the startup loop starts on a job, every job created before it (all were in the
\* batch at a restart) has had its attempt and, unless it was armed again since,
\* is printed or failed.
C24_InOrderOneByOne ==
  [][/\ \A i \in 1 .. Len(batch') - 1 : batch'[i].id < batch'[i + 1].id
     /\ procs'[LoopSlot].pc # "idle"
          => \A i \in 1 .. Len(batch') : procs'[LoopSlot].id < batch'[i].id
     /\ (agentPc = "catchup" /\ procs[LoopSlot].pc = "idle"
         /\ procs'[LoopSlot].pc # "idle")
          => \A i \in JobIds :
               i < procs'[LoopSlot].id
                 => /\ attempts[i] >= 1
                    /\ ~rearmed[i]
                         => print_jobs[i].status \in {"printed", "failed"}]_vars

\* C29: a job marked printing becomes printed or failed: while it is printing,
\* a processJob invocation for it is in flight, or it is still to come from the
\* batch being looped over or from a payload not yet delivered; it is never left
\* in printing with nothing of the agent that would write its outcome.
C29_PrintingIsResolved ==
  \A j \in JobIds :
    print_jobs[j].status = "printing"
      => \/ InFlight(j) # {}
         \/ \E i \in 1 .. Len(batch) : batch[i].id = j
         \/ \E p \in notif : p.id = j

\* C30: at most one poll loop is active: the flag is set exactly while the loop
\* is at its query, in its batch or in its sleep; a CHANNEL_ERROR reported while
\* the loop is running leaves the loop where it is; and a poll query is issued
\* only when the loop starts or after its sleep, one per interval.
C30_OnePollLoop ==
  [][/\ polling' <=> pollPc' # "off"
     /\ (polling /\ channel # "CHANNEL_ERROR" /\ channel' = "CHANNEL_ERROR")
          => polling' /\ pollPc' = pollPc /\ batch' = batch
     /\ (pollPc # "query" /\ pollPc' = "query")
          => \/ pollPc = "sleep"
             \/ pollPc = "off" /\ ~polling]_vars

\* CHANNEL_ERROR is reported for the second time while the loop is running: the
\* startup query failed, so job 1 was failed by the poll loop (started by the
\* first error); it was re-armed while the channel was subscribed again (its
\* payload is still undelivered), and now the channel is in error again
C30_Witness ==
  /\ channel = "CHANNEL_ERROR" /\ polling /\ pollPc \in {"batch", "sleep"}
  /\ attempts[2] = 0 /\ print_jobs[2].status = "ready_to_print"
  /\ rearmed[1] /\ \E p \in notif : p.id = 1

(***************************************************************************)
(* Shutdown of the agent (specification ShutdownSpec).                     *)
(***************************************************************************)
\* C25: the poll loop is guarded by a running flag and the push subscription
\* is removed at shutdown: when the agent process ends, the flag has been set
\* false and the loop has exited (no query, batch or sleep of it is left), and
\* the channel is no longer subscribed.
C25_StoppedLoopAndChannel ==
  [][(agentPc # "stopped" /\ agentPc' = "stopped")
       => /\ ~polling /\ pollPc = "off"
          /\ channel \in {"none", "CLOSED"}]_vars

(***************************************************************************)
(* Discovery of jobs by an agent that crashes and restarts (RestartSpec).  *)
(***************************************************************************)
\* C31: no discovery path starts processJob on a job it observed in a status
\* other than ready_to_print: the loop takes its job from the head of the batch,
\* a query returns only jobs that are ready_to_print in the store, a payload
\* handler starts only on a payload whose status is ready_to_print; and a job
\* that is printing with no processJob, batch entry or payload left for it
\* (left so by a crashed agent) stays printing and is never taken up again.
C31_OnlyReadyIsPickedUp ==
  [][/\ (procs[LoopSlot].pc = "idle" /\ procs'[LoopSlot].pc # "idle")
          => batch # <<>> /\ Head(batch).id = procs'[LoopSlot].id
     /\ \A s \in PushSlots :
          (procs[s].pc = "idle" /\ procs'[s].pc # "idle")
            => \E p \in notif \ notif' :
                 p.id = procs'[s].id /\ p.status = "ready_to_print"
     /\ (batch' # batch /\ (batch = <<>> \/ batch' # Tail(batch)))
          => \A i \in 1 .. Len(batch') :
               print_jobs[batch'[i].id].status = "ready_to_print"
     /\ \A p \in notif' \ notif : p.status = "ready_to_print"
     /\ \A j \in JobIds :
          (/\ print_jobs[j].status = "printing"
           /\ InFlight(j) = {}
           /\ \A i \in 1 .. Len(batch) : batch[i].id # j
           /\ \A p \in notif : p.id # j)
            => /\ print_jobs'[j] = print_jobs[j]
               /\ \A s \in Slots : procs'[s].pc # "idle" => procs'[s].id # j
               /\ \A i \in 1 .. Len(batch') : batch'[i].id # j
               /\ \A p \in notif' : p.id # j]_vars

\* no store call has failed; job 1 was left in printing by a crash, and the
\* agent, launched again, has run its startup query and a poll query and is in
\* the sleep of its poll loop with nothing in flight
C31_Witness ==
  /\ faults = 0
  /\ print_jobs[1].status = "printing" /\ InFlight(1) = {}
  /\ agentPc = "steady" /\ polling /\ pollPc = "sleep" /\ Quiet

(***************************************************************************)
(* Properties of the agent beside another terminal (TerminalSpec).         *)
(***************************************************************************)
\* C15: the agent of terminal T1 discovers, by the startup query, the poll query
\* or a payload, only jobs that are then ready_to_print with terminal_id T1, and
\* starts processJob only on jobs of T1; a job assigned to another terminal is
\* never taken up by a processJob, never printed and never written.
C15_OnlyOwnTerminal ==
  [][/\ \A j \in JobIds :
          print_jobs[j].terminal_id \in Terminals \ {TERMINAL_ID}
            => /\ print_jobs'[j] = print_jobs[j]
               /\ printCount'[j] = printCount[j]
               /\ \A s \in Slots : procs'[s].id # j
     /\ \A s \in Slots :
          (procs[s].pc = "idle" /\ procs'[s].pc # "idle")
            => print_jobs[procs'[s].id].terminal_id = TERMINAL_ID
     /\ (batch' # batch /\ (batch = <<>> \/ batch' # Tail(batch)))
          => \A i \in 1 .. Len(batch') :
               /\ print_jobs[batch'[i].id].status = "ready_to_print"
               /\ print_jobs[batch'[i].id].terminal_id = TERMINAL_ID
     /\ \A p \in notif' \ notif :
          p.status = "ready_to_print" /\ p.terminal_id = TERMINAL_ID]_vars

\* the poll loop has printed the job of T1 after a check-in from T2 armed the
\* job of T2 under the subscribed channel
C15_Witness ==
  /\ polling /\ pollPc \in {"batch", "sleep"}
  /\ reqs[2].pc = "done" /\ reqs[2].term = "T2"
  /\ print_jobs[1].status = "printed" /\ printCount[1] >= 1
  /\ print_jobs[2].status = "ready_to_print" /\ print_jobs[2].terminal_id = "T2"

\* C17: a request whose ticket lookup fails, or whose insert fails otherwise than
\* by the uniqueness violation, is answered 500 by that step, which leaves the
\* check-in rows and the print jobs as they were; and a request answered 500 has
\* no check-in row in the store.
C17_StoreFailureIs500 ==
  [][\A r \in Reqs :
       /\ (reqs[r].pc \in {"new", "insert"} /\ reqs'[r] # reqs[r] /\ faults' # faults)
            => /\ reqs'[r].pc = "done" /\ reqs'[r].http = 500
               /\ checkin_log' = checkin_log /\ print_jobs' = print_jobs
       /\ (reqs'[r].pc = "done" /\ reqs'[r].http = 500)
            => \A i \in 1 .. Len(checkin_log') : checkin_log'[i].req # r]_vars

\* the insert of a request failed and it was answered 500, after which another
\* request checked the ticket in
C17_Witness ==
  \E r, q \in Reqs :
    /\ reqs[r].pc = "done" /\ reqs[r].http = 500 /\ reqs[r].ticket # 0
    /\ reqs[q].pc = "done" /\ reqs[q].http = 200 /\ reqs[q].ticket = reqs[r].ticket

\* C18: a request whose body fails validation (ticketCode missing, empty or not
\* a string) is answered 400 by its first step, which makes no store call (none
\* can fail in it) and leaves the check-in rows and the print jobs as they were;
\* the request, being answered, takes no further step.
C18_MalformedIs400 ==
  [][\A r \in Reqs :
       (reqs[r].pc = "new" /\ reqs'[r].pc # "new" /\ reqs'[r].code = BadCode)
         => /\ reqs'[r].pc = "done" /\ reqs'[r].http = 400
            /\ reqs'[r].ticket = 0
            /\ faults' = faults
            /\ checkin_log' = checkin_log /\ print_jobs' = print_jobs]_vars

\* a malformed request was answered 400 while a ticket was waiting with a pending
\* job and no store call had failed
C18_Witness ==
  \E r \in Reqs :
    /\ reqs[r].pc = "done" /\ reqs[r].code = BadCode /\ reqs[r].http = 400
    /\ faults = 0
    /\ \E j \in JobIds : print_jobs[j].status = "pending" /\ SuccessRows(TicketOf(j)) = {}

\* C19 (it holds under Spec too): check-in rows are append-only: every step of
\* the check-in service and of the agent leaves the rows already in checkin_log
\* in place and unchanged; the relation only grows, at its end.
C19_CheckinLogAppendOnly ==
  [][/\ Len(checkin_log') >= Len(checkin_log)
     /\ SubSeq(checkin_log', 1, Len(checkin_log)) = checkin_log]_vars

\* the agent has printed a job and a check-in made during its run has added a
\* row to those of the earlier run, after a duplicate was refused
C19_Witness ==
  /\ \E j \in JobIds : print_jobs[j].status = "printed"
  /\ \E i, k \in 1 .. Len(checkin_log) :
       checkin_log[i].req = 0 /\ checkin_log[k].req # 0
  /\ \E r \in Reqs : reqs[r].pc = "done" /\ reqs[r].http = 409

(***************************************************************************)
(* The check-in service and the agent together (specification SystemSpec). *)
(***************************************************************************)
\* C22: a job armed for the agent's terminal while the agent is busy with
\* another job is not lost.  For the startup catch-up: the agent does not come
\* to rest (main past the catch-up, channel subscribed, no poll loop, nothing
\* under way, no store call failed) with a job that a check-in armed during the
\* catch-up still ready_to_print and never attempted.
C22_ArmedWhileBusyNotLost ==
  \A r \in Reqs, j \in JobIds :
    ~ /\ reqs[r].pc = "done" /\ reqs[r].armedAt = "catchup"
      /\ TicketOf(j) = reqs[r].ticket
      /\ print_jobs[j].status = "ready_to_print"
      /\ print_jobs[j].terminal_id = TERMINAL_ID
      /\ attempts[j] = 0
      /\ agentPc = "steady" /\ channel = "SUBSCRIBED" /\ ~polling /\ Quiet
      /\ faults = 0

\* C26: every 409 response carries the existing successful check-in row of the
\* ticket, the most recent one; the row is never absent from the response.
C26_DuplicateCarriesRecord ==
  \A r \in Reqs :
    (reqs[r].pc = "done" /\ reqs[r].http = 409)
      => /\ reqs[r].existingLog \in SuccessRows(reqs[r].ticket)
         /\ \A k \in SuccessRows(reqs[r].ticket) : k <= reqs[r].existingLog

(***************************************************************************)
(* Properties of the ticket service (specification IssueSpec).             *)
(***************************************************************************)
\* C27: in every reachable state a ticket has at most one print job that is not
\* in a terminal state (pending, ready_to_print or printing), whatever sends,
\* re-sends and check-ins were made.
C27_OneActiveJobPerTicket ==
  \A t \in Tickets :
    Cardinality({j \in JobsOf(t) :
                   print_jobs[j].status \in {"pending", "ready_to_print", "printing"}}) <= 1

\* C28: the insert of an enqueue that succeeds creates exactly one new print
\* job, pending, with no terminal, whose file_path is the path of the upload,
\* which holds a blob and depends on the ticket code only (a repeated enqueue
\* uploads to the same path); a failed upload ends the enqueue, and a failed
\* upload or insert creates no row; no other step creates a row.
C28_EnqueueCreatesOnePending ==
  [][LET created == {j \in JobIds : print_jobs[j].status = "absent"
                                    /\ print_jobs'[j].status # "absent"}
     IN /\ (send.pc = "insert" /\ send' # send /\ faults' = faults)
             => /\ Cardinality(created) = 1
                /\ \A j \in created :
                     /\ print_jobs'[j].status = "pending"
                     /\ print_jobs'[j].terminal_id = Null
                     /\ print_jobs'[j].ticket_id = send.ticket
                     /\ print_jobs'[j].file_path = filePath(send.code)
                     /\ print_jobs'[j].file_path \in storage
                /\ \A j \in JobIds \ created : print_jobs'[j] = print_jobs[j]
        /\ (send.pc = "upload" /\ send' # send)
             => /\ print_jobs' = print_jobs
                /\ IF faults' = faults
                   THEN /\ send'.pc = "insert"
                        /\ storage' = storage \cup {filePath(send.code)}
                   ELSE send'.pc = "idle" /\ storage' = storage
        /\ created # {} => (send.pc = "insert" /\ faults' = faults)
        /\ \A j \in JobIds :
             print_jobs'[j].status # "absent"
               => print_jobs'[j].file_path = filePath(print_jobs'[j].ticket_id)]_vars

\* a re-send of ticket 1 has enqueued a second job for it, on the path of the
\* first, in a run in which one store call failed
C28_Witness ==
  /\ send.pc = "idle" /\ faults = 1
  /\ TicketOf(2) = 1 /\ print_jobs[2].status = "pending"
  /\ print_jobs[2].file_path = print_jobs[1].file_path
  /\ Cardinality(storage) = 1

\* C33: a step of a check-in request for ticket A leaves every print job of
\* every other ticket as it is, and of a job of A it changes at most status and
\* terminal_id: attempt_count, last_error, file_path and the ticket reference
\* are not touched.
C33_CheckinFrame ==
  [][\A r \in Reqs :
       reqs'[r] # reqs[r]
         => \A j \in JobIds :
              /\ TicketOf(j) # reqs'[r].ticket => print_jobs'[j] = print_jobs[j]
              /\ print_jobs'[j] =
                   [print_jobs[j] EXCEPT !.status = print_jobs'[j].status,
                                         !.terminal_id = print_jobs'[j].terminal_id]]_vars

\* a check-in from T1 has armed the job of ticket 1 while the job of ticket 2,
\* enqueued by a re-send, is still pending
C33_Witness ==
  \E r \in Reqs :
    /\ reqs[r].pc = "done" /\ reqs[r].http = 200 /\ reqs[r].ticket = 1
    /\ print_jobs[1].status = "ready_to_print"
    /\ print_jobs[1].terminal_id = TERMINAL_ID
    /\ TicketOf(2) = 2 /\ print_jobs[2].status = "pending"

(***************************************************************************)
(* Properties of the scan page (specification ScanSpec).                   *)
(***************************************************************************)
\* C34: handleScan never has two check-in requests for the same code in
\* flight: the processing set holds exactly the codes of the requests in
\* flight (a code is added before its request is sent and removed when the
\* request settles, whatever the outcome), and no two requests in flight carry
\* the same code.
C34_OneRequestPerCode ==
  /\ processing = {scans[k].code : k \in {x \in ScanSlots : scans[x].pc = "fetch"}}
  /\ \A k1, k2 \in ScanSlots :
       (k1 # k2 /\ scans[k1].pc = "fetch" /\ scans[k2].pc = "fetch")
         => scans[k1].code # scans[k2].code

\* a request for code 1 is in flight, its debounce is over (a new scan of the
\* code would reach the test of the processing set), and a request for
\* another code is in flight beside it
C34_Witness ==
  \E k1, k2 \in ScanSlots :
    /\ scans[k1].pc = "fetch" /\ scans[k1].code = 1
    /\ scans[k2].pc = "fetch" /\ scans[k2].code = 2
    /\ 1 \notin lastSeen
    /\ processing = {1, 2}

(***************************************************************************)
(* Properties of the walk-in registration (specification WalkinSpec).      *)
(***************************************************************************)
\* C32: a ticket created by walk-in registration counts as checked in: after
\* the registration has inserted its check-in row, no later request adds a
\* second successful row for the ticket code, and every check-in for the code
\* that arrives afterwards is answered 409.
C32_WalkinCountsAsCheckedIn ==
  \A i \in WalkinRows(WalkinTicket) :
    /\ \A k \in 1 .. Len(checkin_log) :
         (k > i /\ checkin_log[k].ticket_code = WalkinTicket)
           => ~checkin_log[k].success
    /\ \A r \in Reqs :
         (reqs[r].pc = "done" /\ reqs[r].code = WalkinTicket /\ reqs[r].http = 200)
           => \E k \in 1 .. i - 1 : checkin_log[k].req = r

====
